---- MODULE Spec2Model ----
(***************************************************************************)
(* python-chat-api: chunk transcription, in-flight tracking and answer     *)
(* reassembly over a shared Redis store.                                   *)
(*                                                                         *)
(* Granularity.  Every action is one command on the store (GET, SET, SADD, *)
(* SREM, SCARD, SMEMBERS, EXPIRE) or one call of an external service,      *)
(* together with the local computation that follows it up to the next such *)
(* command.  The store is a network service (main.py 40-49) shared by      *)
(* every server process, so commands of different requests interleave at   *)
(* this granularity; a single command is atomic.                           *)
(*                                                                         *)
(* Strings.  A Redis key is the sequence of the ':'-separated fields of    *)
(* the f-string that builds it.  A decimal numeral (str(chunk_number)) is  *)
(* a sequence of digit characters; a text is a sequence of tokens in which *)
(* the token " " is a whitespace character.                                *)
(*                                                                         *)
(* Time.  wait_time is counted in tenths of a second (the code adds the    *)
(* double 0.1; its running sum first reaches 30 after the 300th addition,  *)
(* 30.000000000000156, the same iteration as the exact sum).  A key with a  *)
(* time-to-live lives 3600 s or more and a request lasts seconds: the      *)
(* store expires a key between requests, in the order of the deadlines.    *)
(*                                                                         *)
(* Scope.  question_generation.py 95-137 (understand_speech_4o_mini_audio) *)
(* is indented by two columns inside a class body indented by four, and no *)
(* code calls it; the model takes the class's other methods as written.    *)
(***************************************************************************)
EXTENDS Integers, Sequences, FiniteSets, TLC

VARIABLES
    redis,          \* the store: key -> value, for the keys that exist
    ttl,            \* key -> seconds, for the keys that carry a time-to-live
    expired,        \* history: the keys the store has expired
    start,          \* start_session requests, one per session id
    chunk,          \* /stream "chunk" requests (process_chunk)
    fin,            \* /stream requests of any other type (generate)
    max_wait_time,  \* fetch_answer's wait ceiling, in tenths of a second
    health          \* the store client of the process and its GET /health responses

vars == <<redis, ttl, expired, start, chunk, fin, max_wait_time, health>>

(***************************************************************************)
(* Bounds of the model.                                                    *)
(***************************************************************************)
MaxChunkTasks == 2      \* process_chunk requests of a behaviour of Spec
MaxFinalize == 1        \* finalize requests of a behaviour of Spec
MaxWaitScaled == 2      \* wait ceiling of Spec, in poll intervals
PairChunkTasks == 1     \* process_chunk requests of SpecConcurrent
PairFinalize == 2       \* finalize requests of SpecConcurrent
MaxStart == 1           \* start_session requests of Spec and SpecConcurrent
PairStart == 2          \* start_session requests of SpecSessions
SessionsChunkTasks == 1 \* process_chunk requests of SpecSessions
SessionsFinalize == 1   \* finalize requests of SpecSessions
MaxAudioChunks == 2     \* audio frames of one speech stream
MaxHealthChecks == 4    \* GET /health requests of SpecHealth

ChunkNumbers == {2, 10}
AudioInputs == {"dGVzdA==", "dGVzdA"}
Transcripts == {<<"Halo">>, <<"Selamat", " ", "pagi,">>}
ResponseTexts == {<<"Ringkasan">>, <<"Pertanyaan">>}
StreamTypes == {"chunk", "final"}

(***************************************************************************)
(* Program constants.                                                      *)
(***************************************************************************)
MaxWaitTime == 300          \* max_wait_time = 30 s, in tenths
PollInterval == 1           \* asyncio.sleep(0.1); wait_time += 0.1
SessionTimeout == 3600      \* settings.session_timeout
TranscriptTTL == 86400      \* expire(identifier_text_chunk, 86400)
ResponseTTL == 86400        \* expire(response_key, 86400)

None == "None"

(***************************************************************************)
(* str(n) and int(s) on decimal numerals.                                *)
(***************************************************************************)
Digits == <<"0", "1", "2", "3", "4", "5", "6", "7", "8", "9">>

RECURSIVE Str(_)
Str(n) == IF n < 10 THEN <<Digits[n + 1]>>
          ELSE Str(n \div 10) \o <<Digits[(n % 10) + 1]>>

DigitValue(d) == (CHOOSE i \in 1..10 : Digits[i] = d) - 1

RECURSIVE IntOf(_)
IntOf(s) == IF Len(s) = 1 THEN DigitValue(s[1])
            ELSE 10 * IntOf(SubSeq(s, 1, Len(s) - 1)) + DigitValue(s[Len(s)])

(***************************************************************************)
(* uuid.uuid4(): a value that no other call returns.  Uuid4Session(n) is   *)
(* the session id drawn by the n-th start_session request, Uuid4Message(s) *)
(* the message id drawn next to session id s.                              *)
(***************************************************************************)
\* Mutant: every request draws the same session id.
Uuid4SessionRepeats(n) == "s1"

Uuid4Session(n) == <<"s1", "s2", "s3", "s4">>[n]

Uuid4Message(s) == IF s = "s1" THEN "m1"
                   ELSE IF s = "s2" THEN "m2"
                   ELSE IF s = "s3" THEN "m3" ELSE "m4"

(***************************************************************************)
(* base64.b64decode(audio_data) raises on incorrect padding.               *)
(***************************************************************************)
B64DecodeRaises(a) == a = "dGVzdA"

(***************************************************************************)
(* Key names.                                                              *)
(***************************************************************************)
KeySession(s) == <<"session", s>>
KeyCurrentMessage(s) == <<"session", s, "current_message_id">>
KeyProcess(s, m) == <<"transcription", s, "message", m, "process">>
KeyChunk(s, m) == <<"transcription", s, "message", m, "chunk">>
\* Mutant: the transcript key built without the caller's session and message.
KeyTextOneSession(s, m, c) ==
    <<"transcription", "s1", "message", "m1">> \o Str(c) \o <<"text">>

KeyText(s, m, c) == <<"transcription", s, "message", m>> \o Str(c) \o <<"text">>
KeyResponse(s, m) == <<"transcription", s, "message", m, "assistant_response">>

(***************************************************************************)
(* The Redis commands the program uses, as functions of the store.         *)
(***************************************************************************)
Exists(k) == k \in DOMAIN redis

Put(r, k, v) == [x \in (DOMAIN r) \cup {k} |-> IF x = k THEN v ELSE r[x]]
Drop(r, k) == [x \in (DOMAIN r) \ {k} |-> r[x]]

\* GET of a string key; None when the key does not exist.
Get(k) == IF Exists(k) THEN redis[k] ELSE None

\* Mutant: GETDEL, the read removes the key.
StoreAfterGetDel(k) == Drop(redis, k)

\* The store after GET of a key: as it was.
StoreAfterGet(k) == redis

\* SMEMBERS / SCARD: a key that does not exist is the empty set.
SMembers(k) == IF Exists(k) THEN redis[k] ELSE {}
SCard(k) == Cardinality(SMembers(k))

\* SADD keeps the key's time-to-live.
\* Mutant: adding a member that is present removes it.
SAddStoreToggle(k, x) ==
    IF x \in SMembers(k)
    THEN (IF SMembers(k) = {x} THEN Drop(redis, k) ELSE Put(redis, k, SMembers(k) \ {x}))
    ELSE Put(redis, k, SMembers(k) \cup {x})

SAddStore(k, x) == Put(redis, k, SMembers(k) \cup {x})

\* SREM deletes the key when its last member goes (and with it its ttl).
SRemStore(k, x) == IF SMembers(k) \ {x} = {} THEN Drop(redis, k)
                   ELSE Put(redis, k, SMembers(k) \ {x})
SRemTtl(k, x) == IF SMembers(k) \ {x} = {} THEN Drop(ttl, k) ELSE ttl

\* SET without options replaces the value and clears the key's time-to-live.
\* Mutant: SET NX, the first value stays.
SetStoreIfAbsent(k, v) == IF Exists(k) THEN redis ELSE Put(redis, k, v)

SetStore(k, v) == Put(redis, k, v)
SetTtl(k) == Drop(ttl, k)

\* EXPIRE does nothing on a key that does not exist.
ExpireTtl(k, secs) == IF Exists(k) THEN Put(ttl, k, secs) ELSE ttl

(***************************************************************************)
(* sorted([int(chunk.decode()) for chunk in chunk_numbers]): the members   *)
(* parsed as integers, in ascending numeric order.                         *)
(***************************************************************************)
RECURSIVE LexLess(_, _)
LexLess(a, b) ==
    IF Len(a) = 0 THEN Len(b) > 0
    ELSE IF Len(b) = 0 THEN FALSE
    ELSE IF a[1] # b[1] THEN DigitValue(a[1]) < DigitValue(b[1])
    ELSE LexLess(Tail(a), Tail(b))

RECURSIVE AscendingSeq(_)
AscendingSeq(S) ==
    IF S = {} THEN <<>>
    ELSE LET m == CHOOSE x \in S : \A y \in S : x <= y
         IN  <<m>> \o AscendingSeq(S \ {m})

RECURSIVE LexicalSeq(_)
LexicalSeq(M) ==
    IF M = {} THEN <<>>
    ELSE LET m == CHOOSE x \in M : \A y \in M \ {x} : LexLess(x, y)
         IN  <<IntOf(m)>> \o LexicalSeq(M \ {m})

\* Mutant: the members sorted as strings, before parsing.
SortedChunksLexical(members) == LexicalSeq(members)

SortedChunks(members) == AscendingSeq({IntOf(x) : x \in members})

(***************************************************************************)
(* str.strip(): leading and trailing whitespace removed.                   *)
(***************************************************************************)
RECURSIVE LStrip(_)
LStrip(t) == IF t # <<>> /\ Head(t) = " " THEN LStrip(Tail(t)) ELSE t

RECURSIVE RStrip(_)
RStrip(t) == IF t # <<>> /\ t[Len(t)] = " "
             THEN RStrip(SubSeq(t, 1, Len(t) - 1)) ELSE t

\* Mutant: only the leading whitespace removed.
StripLeftOnly(t) == LStrip(t)

Strip(t) == RStrip(LStrip(t))

\* user_answer += f" {chunk_text}" when the transcript exists and is not empty.
\* Mutant: the separator left out.
AppendChunkNoSpace(answer, k) ==
    IF Exists(k) /\ redis[k] # <<>> THEN answer \o redis[k] ELSE answer

\* Mutant: the answer replaced by the chunk instead of extended by it.
AppendChunkLast(answer, k) ==
    IF Exists(k) /\ redis[k] # <<>> THEN <<" ">> \o redis[k] ELSE answer

AppendChunk(answer, k) ==
    IF Exists(k) /\ redis[k] # <<>> THEN answer \o <<" ">> \o redis[k] ELSE answer

(***************************************************************************)
(* Requests.                                                               *)
(***************************************************************************)
StartTasks == DOMAIN start
ChunkTasks == DOMAIN chunk
FinTasks == DOMAIN fin

\* The session ids a client can send: those start_session hands out.
SessionIds == {Uuid4Session(n) : n \in StartTasks}

IdleStart == [pc |-> "idle", session_id |-> None]

IdleChunk == [pc |-> "idle", session_id |-> None, chunk_number |-> 0,
              audio_data |-> None, message_id |-> None, text |-> <<>>,
              raised |-> None, detail |-> None, overlapped |-> FALSE,
              latest |-> FALSE, stream_type |-> None]

IdleFin == [pc |-> "idle", session_id |-> None, message_id |-> None,
            wait_time |-> 0, timed_out |-> FALSE,
            sorted_chunks |-> <<>>, i |-> 1, user_answer |-> <<>>,
            found |-> 0, fetched |-> FALSE, raised |-> None, detail |-> None,
            before |-> {}, began_quiet |-> FALSE, after |-> {},
            response_text |-> <<>>, stored |-> FALSE, events |-> <<>>,
            failed |-> FALSE, stream_type |-> None]

\* What the transcription call can do: raise an exception of the ValueError
\* family (json.JSONDecodeError, pydantic.ValidationError, ...), raise any
\* other exception, or return a response whose text is empty or a transcript.
GeminiOutcomes ==
    {[raises |-> "ValueError", text |-> <<>>],
     [raises |-> "Exception", text |-> <<>>],
     [raises |-> None, text |-> <<>>]}
    \cup {[raises |-> None, text |-> t] : t \in Transcripts}

\* A process that serves requests has a store client (create_clients succeeded).
ServingHealth == [redis_client |-> "Redis", responses |-> <<>>]

InitStore ==
    /\ redis = [k \in {} |-> None]
    /\ ttl = [k \in {} |-> 0]
    /\ expired = {}

Init ==
    /\ InitStore
    /\ start = [n \in 1..MaxStart |-> IdleStart]
    /\ chunk = [t \in 1..MaxChunkTasks |-> IdleChunk]
    /\ fin = [f \in 1..MaxFinalize |-> IdleFin]
    /\ max_wait_time = MaxWaitScaled * PollInterval
    /\ health = ServingHealth

(***************************************************************************)
(* POST /start-session.                                                    *)
(***************************************************************************)
\* Requests are taken up in the order of their numbers.
StartMayBegin(n) ==
    start[n].pc = "idle" /\ (IF n = 1 THEN TRUE ELSE start[n - 1].pc # "idle")

\* Lines 172-176: the two ids are drawn; the message joins the session's set.
StartSadd(n) ==
    /\ StartMayBegin(n)
    /\ LET session_id == Uuid4Session(n)
       IN  /\ redis' = SAddStore(KeySession(session_id), Uuid4Message(session_id))
           /\ start' = [start EXCEPT ![n] = [pc |-> "set", session_id |-> session_id]]
    /\ UNCHANGED <<ttl, expired, chunk, fin, max_wait_time, health>>

StartSet(n) ==
    /\ start[n].pc = "set"
    /\ redis' = SetStore(KeyCurrentMessage(start[n].session_id),
                         Uuid4Message(start[n].session_id))
    /\ ttl' = SetTtl(KeyCurrentMessage(start[n].session_id))
    /\ start' = [start EXCEPT ![n].pc = "expire_session"]
    /\ UNCHANGED <<expired, chunk, fin, max_wait_time, health>>

StartExpireSession(n) ==
    /\ start[n].pc = "expire_session"
    /\ ttl' = ExpireTtl(KeySession(start[n].session_id), SessionTimeout)
    /\ start' = [start EXCEPT ![n].pc = "expire_pointer"]
    /\ UNCHANGED <<redis, expired, chunk, fin, max_wait_time, health>>

\* Lines 181-184: the last command; SessionResponse(session_id) is returned.
StartExpirePointer(n) ==
    /\ start[n].pc = "expire_pointer"
    /\ ttl' = ExpireTtl(KeyCurrentMessage(start[n].session_id), SessionTimeout)
    /\ start' = [start EXCEPT ![n].pc = "done"]
    /\ UNCHANGED <<redis, expired, chunk, fin, max_wait_time, health>>

(***************************************************************************)
(* Transcribe.process_chunk.                                               *)
(***************************************************************************)
\* main.stream, lines 147-163: the branch on payload.stream_type.
\* Mutant: the two branches exchanged.
StreamRouteSwapped(stream_type) ==
    IF stream_type = "chunk" THEN "generate" ELSE "process_chunk"

StreamRoute(stream_type) ==
    IF stream_type = "chunk" THEN "process_chunk" ELSE "generate"

\* Requests are taken up in the order of their numbers.
ChunkMayBegin(t) ==
    chunk[t].pc = "idle" /\ (IF t = 1 THEN TRUE ELSE chunk[t - 1].pc # "idle")
FinMayBegin(f) ==
    fin[f].pc = "idle" /\ (IF f = 1 THEN TRUE ELSE fin[f - 1].pc # "idle")

\* The commands of the success path after the transcription returned a text.
\* Mutant: the in-flight marker removed before the transcript is stored.
ChunkSuccessPathSremFirst == <<"srem", "set_text", "expire_text", "done">>

ChunkSuccessPath == <<"set_text", "expire_text", "srem", "done">>

\* Mutant: the number joins the seen set before the in-flight set.
ChunkBeginPathSeenFirst == <<"sadd_chunk", "sadd_process">>

\* Lines 63-67: SADD to the in-flight set, then SADD to the seen set.
ChunkBeginPath == <<"sadd_process", "sadd_chunk">>

NextOnPath(pc) ==
    LET i == CHOOSE j \in 1..Len(ChunkSuccessPath) : ChunkSuccessPath[j] = pc
    IN  ChunkSuccessPath[i + 1]

\* except ValueError: raise (no store command); except Exception: srem of
\* the in-flight marker, then raise.
CleanupOn(exc) == exc # "ValueError"

\* if not message_id_bytes: the GET found no key (or an empty value).
\* Mutant: the lookup's result is not checked.
SessionMissingNever(m) == FALSE

SessionMissing(m) == m = None \/ m = ""

\* Lines 44-60: argument checks, then GET of the current message id.
\* overlapped (history): another submission of the same chunk of the same
\* message was running at some time while this one was.
\* Lines 70-73, after the second SADD: the audio is decoded.
DecodeAudio(rec) ==
    IF B64DecodeRaises(rec.audio_data)
    THEN IF CleanupOn("ValueError")
         THEN [rec EXCEPT !.pc = "cleanup", !.raised = "Exception",
                          !.detail = "invalid base64"]
         ELSE [rec EXCEPT !.pc = "done", !.raised = "ValueError",
                          !.detail = "invalid base64"]
    ELSE [rec EXCEPT !.pc = "transcribe"]

\* The request after one of its two SADDs.
AfterBeginStep(rec) ==
    IF rec.pc = ChunkBeginPath[Len(ChunkBeginPath)]
    THEN DecodeAudio(rec)
    ELSE [rec EXCEPT !.pc = ChunkBeginPath[2]]

ProcessChunkGet(t) ==
    /\ ChunkMayBegin(t)
    /\ \E s \in SessionIds, c \in ChunkNumbers, a \in AudioInputs,
          st \in {x \in StreamTypes : StreamRoute(x) = "process_chunk"} :
         LET m == Get(KeyCurrentMessage(s))
             req == [IdleChunk EXCEPT !.session_id = s, !.chunk_number = c,
                                      !.audio_data = a, !.stream_type = st]
             found == a # "" /\ s # "" /\ c >= 0 /\ ~SessionMissing(m)
             twins == {u \in DOMAIN chunk \ {t} :
                          /\ found
                          /\ chunk[u].pc \notin {"idle", "done"}
                          /\ chunk[u].session_id = s
                          /\ chunk[u].message_id = m
                          /\ chunk[u].chunk_number = c}
         IN  /\ chunk' = [u \in DOMAIN chunk |->
                 IF u \in twins THEN [chunk[u] EXCEPT !.overlapped = TRUE]
                 ELSE IF u # t THEN chunk[u]
                 ELSE IF a = "" \/ s = "" \/ c < 0
                 THEN [req EXCEPT !.pc = "done", !.raised = "ValueError",
                                  !.detail = "invalid arguments"]
                 ELSE IF SessionMissing(m)
                 THEN [req EXCEPT !.pc = "done", !.raised = "ValueError",
                                  !.detail = "session not found"]
                 ELSE [req EXCEPT !.pc = ChunkBeginPath[1], !.message_id = m,
                                  !.overlapped = twins # {}]]
             /\ redis' = IF a = "" \/ s = "" \/ c < 0 THEN redis
                         ELSE StoreAfterGet(KeyCurrentMessage(s))
    /\ UNCHANGED <<ttl, expired, start, fin, max_wait_time, health>>

\* Lines 63-64: the chunk number joins the in-flight set.
ProcessChunkSaddProcess(t) ==
    /\ chunk[t].pc = "sadd_process"
    /\ redis' = SAddStore(KeyProcess(chunk[t].session_id, chunk[t].message_id),
                          Str(chunk[t].chunk_number))
    /\ chunk' = [chunk EXCEPT ![t] = AfterBeginStep(chunk[t])]
    /\ UNCHANGED <<ttl, expired, start, fin, max_wait_time, health>>

\* Lines 66-67: the chunk number joins the seen set.
ProcessChunkSaddChunk(t) ==
    /\ chunk[t].pc = "sadd_chunk"
    /\ redis' = SAddStore(KeyChunk(chunk[t].session_id, chunk[t].message_id),
                          Str(chunk[t].chunk_number))
    /\ chunk' = [chunk EXCEPT ![t] = AfterBeginStep(chunk[t])]
    /\ UNCHANGED <<ttl, expired, start, fin, max_wait_time, health>>

\* Lines 76-94: the transcription call and the check of its response.
ProcessChunkTranscribe(t) ==
    /\ chunk[t].pc = "transcribe"
    /\ \E o \in GeminiOutcomes :
         LET exc == IF o.raises # None THEN o.raises
                    ELSE IF o.text = <<>> THEN "Exception" ELSE None
         IN  chunk' = [chunk EXCEPT ![t] =
                 IF exc = None
                 THEN [@ EXCEPT !.pc = ChunkSuccessPath[1], !.text = o.text]
                 ELSE IF CleanupOn(exc)
                 THEN [@ EXCEPT !.pc = "cleanup", !.raised = "Exception",
                                !.detail = "transcription failed"]
                 ELSE [@ EXCEPT !.pc = "done", !.raised = exc,
                                !.detail = "transcription failed"]]
    /\ UNCHANGED <<redis, ttl, expired, start, fin, max_wait_time, health>>

\* Lines 97-98: the transcript is stored.
\* latest (history): this request's SET is the last one on its key.
ProcessChunkSetText(t) ==
    /\ chunk[t].pc = "set_text"
    /\ LET k == KeyText(chunk[t].session_id, chunk[t].message_id,
                        chunk[t].chunk_number)
       IN  /\ redis' = SetStore(k, chunk[t].text)
           /\ ttl' = SetTtl(k)
    /\ chunk' = [u \in DOMAIN chunk |->
           IF u = t THEN [chunk[t] EXCEPT !.pc = NextOnPath("set_text"),
                                          !.latest = TRUE]
           ELSE IF /\ chunk[u].session_id = chunk[t].session_id
                   /\ chunk[u].message_id = chunk[t].message_id
                   /\ chunk[u].chunk_number = chunk[t].chunk_number
           THEN [chunk[u] EXCEPT !.latest = FALSE]
           ELSE chunk[u]]
    /\ UNCHANGED <<expired, start, fin, max_wait_time, health>>

\* Lines 100-101: the transcript gets its time-to-live.
ProcessChunkExpireText(t) ==
    /\ chunk[t].pc = "expire_text"
    /\ ttl' = ExpireTtl(KeyText(chunk[t].session_id, chunk[t].message_id,
                                chunk[t].chunk_number), TranscriptTTL)
    /\ chunk' = [chunk EXCEPT ![t].pc = NextOnPath("expire_text")]
    /\ UNCHANGED <<redis, expired, start, fin, max_wait_time, health>>

\* Lines 103-106: the chunk number leaves the in-flight set.
ProcessChunkSrem(t) ==
    /\ chunk[t].pc = "srem"
    /\ LET k == KeyProcess(chunk[t].session_id, chunk[t].message_id)
       IN  /\ redis' = SRemStore(k, Str(chunk[t].chunk_number))
           /\ ttl' = SRemTtl(k, Str(chunk[t].chunk_number))
    /\ chunk' = [chunk EXCEPT ![t].pc = NextOnPath("srem")]
    /\ UNCHANGED <<expired, start, fin, max_wait_time, health>>

\* Lines 111-121: cleanup of the in-flight marker, then the exception.
ProcessChunkCleanup(t) ==
    /\ chunk[t].pc = "cleanup"
    /\ LET k == KeyProcess(chunk[t].session_id, chunk[t].message_id)
       IN  /\ redis' = SRemStore(k, Str(chunk[t].chunk_number))
           /\ ttl' = SRemTtl(k, Str(chunk[t].chunk_number))
    /\ chunk' = [chunk EXCEPT ![t].pc = "done"]
    /\ UNCHANGED <<expired, start, fin, max_wait_time, health>>

\* main.stream, stream_type "chunk": the answer to the caller.
StreamChunkResponse(t) ==
    IF chunk[t].raised = None THEN "chunk_processed" ELSE "HTTP 500"

\* Line 153: the chunk_number field of the answer.
StreamChunkNumber(t) == chunk[t].chunk_number

(***************************************************************************)
(* QuestionGeneration.generate and fetch_answer.                           *)
(***************************************************************************)
ChunkDone(t) == chunk[t].pc = "done"

\* Mutant: the ceiling compared with > instead of >=.
WaitExpiredStrict(wait_time) == wait_time > max_wait_time

\* if wait_time >= max_wait_time: break
WaitExpired(wait_time) == wait_time >= max_wait_time

\* Mutant: the empty answer is passed on to the response pipeline.
AnswerMissingNever(user_answer) == FALSE

\* generate, line 57: if not user_answer
AnswerMissing(user_answer) == user_answer = <<>>

\* fetch_answer has returned user_answer; generate goes on from line 54.
GenerateAfterFetch(rec, user_answer, found) ==
    IF AnswerMissing(user_answer)
    THEN [rec EXCEPT !.pc = "done", !.fetched = TRUE, !.found = found,
                     !.user_answer = user_answer, !.raised = "ValueError",
                     !.detail = "no user answer"]
    ELSE [rec EXCEPT !.pc = "understand", !.fetched = TRUE, !.found = found,
                     !.user_answer = user_answer]

\* generate 46-53, fetch_answer 219-233: GET of the current message id.
\* before, began_quiet: the process_chunk requests that had ended when this
\* request began, and whether none was running then (history).
FetchGet(f) ==
    /\ FinMayBegin(f)
    /\ \E s \in SessionIds,
          st \in {x \in StreamTypes : StreamRoute(x) = "generate"} :
         LET m == Get(KeyCurrentMessage(s))
             req == [IdleFin EXCEPT !.session_id = s, !.stream_type = st,
                        !.before = {t \in ChunkTasks : ChunkDone(t)},
                        !.after = {g \in FinTasks : fin[g].pc = "done"},
                        !.began_quiet = \A t \in ChunkTasks :
                                           chunk[t].pc \in {"idle", "done"}]
         IN  /\ fin' = [fin EXCEPT ![f] =
                 IF s = "" \/ SessionMissing(m)
                 THEN [req EXCEPT !.pc = "done", !.raised = "ValueError",
                                  !.detail = "session not found"]
                 ELSE [req EXCEPT !.pc = "scard", !.message_id = m]]
             /\ redis' = IF s = "" THEN redis
                         ELSE StoreAfterGet(KeyCurrentMessage(s))
    /\ UNCHANGED <<ttl, expired, start, chunk, max_wait_time, health>>

\* Lines 235-246: one evaluation of the loop condition (SCARD) and the body.
FetchPoll(f) ==
    /\ fin[f].pc = "scard"
    /\ LET n == SCard(KeyProcess(fin[f].session_id, fin[f].message_id))
       IN  fin' = [fin EXCEPT ![f] =
               IF n > 0
               THEN IF WaitExpired(fin[f].wait_time)
                    THEN [@ EXCEPT !.pc = "smembers", !.timed_out = TRUE]
                    ELSE [@ EXCEPT !.wait_time = @ + PollInterval]
               ELSE [@ EXCEPT !.pc = "smembers"]]
    /\ UNCHANGED <<redis, ttl, expired, start, chunk, max_wait_time, health>>

\* Lines 248-260: SMEMBERS of the seen set; the numbers are sorted.
FetchSMembers(f) ==
    /\ fin[f].pc = "smembers"
    /\ LET chunk_numbers == SMembers(KeyChunk(fin[f].session_id, fin[f].message_id))
       IN  fin' = [fin EXCEPT ![f] =
               IF chunk_numbers = {}
               THEN GenerateAfterFetch(@, <<>>, 0)
               ELSE [@ EXCEPT !.pc = "get_text", !.i = 1, !.user_answer = <<>>,
                              !.sorted_chunks = SortedChunks(chunk_numbers)]]
    /\ UNCHANGED <<redis, ttl, expired, start, chunk, max_wait_time, health>>

\* Lines 262-281: GET of one transcript; after the last one, strip and return.
FetchGetText(f) ==
    /\ fin[f].pc = "get_text"
    /\ LET k == KeyText(fin[f].session_id, fin[f].message_id,
                        fin[f].sorted_chunks[fin[f].i])
           user_answer == AppendChunk(fin[f].user_answer, k)
           found == IF user_answer = fin[f].user_answer THEN fin[f].found
                    ELSE fin[f].found + 1
       IN  /\ fin' = [fin EXCEPT ![f] =
               IF fin[f].i < Len(fin[f].sorted_chunks)
               THEN [@ EXCEPT !.i = @ + 1, !.user_answer = user_answer,
                              !.found = found]
               ELSE GenerateAfterFetch(@, Strip(user_answer), found)]
           /\ redis' = StoreAfterGet(k)
    /\ UNCHANGED <<ttl, expired, start, chunk, max_wait_time, health>>

(***************************************************************************)
(* QuestionGeneration.understand_gemini_speech_elevenlabs, driven by       *)
(* generate's async for (lines 83-86).  events is the sequence of the      *)
(* server-sent events yielded so far, by type.                             *)
(***************************************************************************)
\* What the generation call can do: raise, or return an empty or a real text.
ResponseOutcomes ==
    {[raises |-> "Exception", text |-> <<>>], [raises |-> None, text |-> <<>>]}
    \cup {[raises |-> None, text |-> t] : t \in ResponseTexts}

\* The commands between the generation call and the audio stream.
\* Mutant: the speech service is called before the response is stored.
ResponsePathSpeechFirst == <<"tts_call", "set_response", "expire_response", "stream">>

ResponsePath == <<"set_response", "expire_response", "tts_call", "stream">>

NextOnResponsePath(pc) ==
    LET i == CHOOSE j \in 1..Len(ResponsePath) : ResponsePath[j] = pc
    IN  ResponsePath[i + 1]

\* Lines 196-203: except Exception: one error event is yielded and the
\* generator ends.
\* Mutant: the exception leaves the generator.
YieldErrorReraises(rec) ==
    [rec EXCEPT !.pc = "done", !.failed = TRUE, !.raised = "Exception",
                !.detail = "speech generation failed"]

YieldError(rec) ==
    [rec EXCEPT !.pc = "done", !.failed = TRUE, !.events = Append(@, "error")]

\* Lines 157-167: the generation call and the check of its response.
UnderstandGenerate(f) ==
    /\ fin[f].pc = "understand"
    /\ \E o \in ResponseOutcomes :
         fin' = [fin EXCEPT ![f] =
             IF o.raises # None \/ o.text = <<>>
             THEN YieldError(@)
             ELSE [@ EXCEPT !.pc = ResponsePath[1], !.response_text = o.text]]
    /\ UNCHANGED <<redis, ttl, expired, start, chunk, max_wait_time, health>>

\* Lines 170-171: the assistant response is stored.
UnderstandSetResponse(f) ==
    /\ fin[f].pc = "set_response"
    /\ LET k == KeyResponse(fin[f].session_id, fin[f].message_id)
       IN  /\ redis' = SetStore(k, fin[f].response_text)
           /\ ttl' = SetTtl(k)
    /\ fin' = [fin EXCEPT ![f].pc = NextOnResponsePath("set_response"),
                          ![f].stored = TRUE]
    /\ UNCHANGED <<expired, start, chunk, max_wait_time, health>>

\* Line 172: the assistant response gets its time-to-live.
UnderstandExpireResponse(f) ==
    /\ fin[f].pc = "expire_response"
    /\ ttl' = ExpireTtl(KeyResponse(fin[f].session_id, fin[f].message_id),
                        ResponseTTL)
    /\ fin' = [fin EXCEPT ![f].pc = NextOnResponsePath("expire_response")]
    /\ UNCHANGED <<redis, expired, start, chunk, max_wait_time, health>>

\* Lines 177-183: the speech service is called; it opens a stream or raises.
UnderstandSpeech(f) ==
    /\ fin[f].pc = "tts_call"
    /\ \E raises \in BOOLEAN :
         fin' = [fin EXCEPT ![f] =
             IF raises THEN YieldError(@)
             ELSE [@ EXCEPT !.pc = NextOnResponsePath("tts_call")]]
    /\ UNCHANGED <<redis, ttl, expired, start, chunk, max_wait_time, health>>

\* Lines 186-194: one step of the for loop over the stream: the next frame
\* is yielded as an audio event, the stream ends, or the stream raises.
UnderstandStream(f) ==
    /\ fin[f].pc = "stream"
    /\ \E o \in {"frame", "end", "raise"} :
         /\ o = "frame" => Len(fin[f].events) < MaxAudioChunks
         /\ fin' = [fin EXCEPT ![f] =
                IF o = "frame" THEN [@ EXCEPT !.events = Append(@, "audio")]
                ELSE IF o = "end" THEN [@ EXCEPT !.pc = "done"]
                ELSE YieldError(@)]
    /\ UNCHANGED <<redis, ttl, expired, start, chunk, max_wait_time, health>>

(***************************************************************************)
(* Expiry of a key by the store, between requests.  Deadlines: a shorter   *)
(* time-to-live runs out first (a transcript's 86400 s begin after the     *)
(* session's 3600 s); the session set's EXPIRE is issued before the        *)
(* pointer's.                                                              *)
(***************************************************************************)
Quiescent ==
    /\ \A n \in StartTasks : start[n].pc \in {"idle", "done"}
    /\ \A t \in ChunkTasks : chunk[t].pc \in {"idle", "done"}
    /\ \A f \in FinTasks : fin[f].pc \in {"idle", "done"}

DeadlineBefore(k2, k) ==
    \/ ttl[k2] < ttl[k]
    \/ \E s \in SessionIds : k2 = KeySession(s) /\ k = KeyCurrentMessage(s)

ExpireKey(k) ==
    /\ k \in DOMAIN ttl
    /\ \A k2 \in DOMAIN ttl : ~DeadlineBefore(k2, k)
    /\ Quiescent
    /\ redis' = Drop(redis, k)
    /\ ttl' = Drop(ttl, k)
    /\ expired' = expired \cup {k}
    /\ UNCHANGED <<start, chunk, fin, max_wait_time, health>>

(***************************************************************************)
(* The system.                                                             *)
(***************************************************************************)
Next ==
    \/ \E n \in StartTasks : StartSadd(n)
    \/ \E n \in StartTasks : StartSet(n)
    \/ \E n \in StartTasks : StartExpireSession(n)
    \/ \E n \in StartTasks : StartExpirePointer(n)
    \/ \E t \in ChunkTasks : ProcessChunkGet(t)
    \/ \E t \in ChunkTasks : ProcessChunkSaddProcess(t)
    \/ \E t \in ChunkTasks : ProcessChunkSaddChunk(t)
    \/ \E t \in ChunkTasks : ProcessChunkTranscribe(t)
    \/ \E t \in ChunkTasks : ProcessChunkSetText(t)
    \/ \E t \in ChunkTasks : ProcessChunkExpireText(t)
    \/ \E t \in ChunkTasks : ProcessChunkSrem(t)
    \/ \E t \in ChunkTasks : ProcessChunkCleanup(t)
    \/ \E f \in FinTasks : FetchGet(f)
    \/ \E f \in FinTasks : FetchPoll(f)
    \/ \E f \in FinTasks : FetchSMembers(f)
    \/ \E f \in FinTasks : FetchGetText(f)
    \/ \E f \in FinTasks : UnderstandGenerate(f)
    \/ \E f \in FinTasks : UnderstandSetResponse(f)
    \/ \E f \in FinTasks : UnderstandExpireResponse(f)
    \/ \E f \in FinTasks : UnderstandSpeech(f)
    \/ \E f \in FinTasks : UnderstandStream(f)
    \/ \E k \in DOMAIN ttl : ExpireKey(k)

Spec == Init /\ [][Next]_vars

(***************************************************************************)
(* The same system on one event loop (one server process): a coroutine     *)
(* runs until it awaits something that suspends it, and only then can      *)
(* another request run.  process_chunk and start_session contain no await  *)
(* (the store and service clients are synchronous); fetch_answer awaits    *)
(* asyncio.sleep(0.1) in its wait loop, the response pipeline awaits       *)
(* asyncio.sleep(0.01) and yields an event per audio frame.                *)
(***************************************************************************)
\* Mutant: the wait loop pauses without giving up the event loop.
WaitSuspendsNever(rec) == FALSE

\* await asyncio.sleep(0.1): the request is in its wait loop and has slept.
WaitSuspends(rec) == rec.pc = "scard" /\ rec.wait_time > 0

StartSuspended(rec) == rec.pc \in {"idle", "done"}
ChunkSuspended(rec) == rec.pc \in {"idle", "done"}
FinSuspended(rec) ==
    \/ rec.pc \in {"idle", "done"}
    \/ WaitSuspends(rec)
    \/ rec.pc = "stream" /\ rec.events # <<>>

\* A request that is not suspended is the one that takes the step.
CooperativeStep ==
    /\ \A n \in StartTasks : ~StartSuspended(start[n]) => start'[n] # start[n]
    /\ \A t \in ChunkTasks : ~ChunkSuspended(chunk[t]) => chunk'[t].pc # chunk[t].pc
    /\ \A f \in FinTasks : ~FinSuspended(fin[f]) => fin'[f] # fin[f]

NextCooperative ==
    \/ \E n \in StartTasks : StartSadd(n) /\ CooperativeStep
    \/ \E n \in StartTasks : StartSet(n) /\ CooperativeStep
    \/ \E n \in StartTasks : StartExpireSession(n) /\ CooperativeStep
    \/ \E n \in StartTasks : StartExpirePointer(n) /\ CooperativeStep
    \/ \E t \in ChunkTasks : ProcessChunkGet(t) /\ CooperativeStep
    \/ \E t \in ChunkTasks : ProcessChunkSaddProcess(t) /\ CooperativeStep
    \/ \E t \in ChunkTasks : ProcessChunkSaddChunk(t) /\ CooperativeStep
    \/ \E t \in ChunkTasks : ProcessChunkTranscribe(t) /\ CooperativeStep
    \/ \E t \in ChunkTasks : ProcessChunkSetText(t) /\ CooperativeStep
    \/ \E t \in ChunkTasks : ProcessChunkExpireText(t) /\ CooperativeStep
    \/ \E t \in ChunkTasks : ProcessChunkSrem(t) /\ CooperativeStep
    \/ \E t \in ChunkTasks : ProcessChunkCleanup(t) /\ CooperativeStep
    \/ \E f \in FinTasks : FetchGet(f) /\ CooperativeStep
    \/ \E f \in FinTasks : FetchPoll(f) /\ CooperativeStep
    \/ \E f \in FinTasks : FetchSMembers(f) /\ CooperativeStep
    \/ \E f \in FinTasks : FetchGetText(f) /\ CooperativeStep
    \/ \E f \in FinTasks : UnderstandGenerate(f) /\ CooperativeStep
    \/ \E f \in FinTasks : UnderstandSetResponse(f) /\ CooperativeStep
    \/ \E f \in FinTasks : UnderstandExpireResponse(f) /\ CooperativeStep
    \/ \E f \in FinTasks : UnderstandSpeech(f) /\ CooperativeStep
    \/ \E f \in FinTasks : UnderstandStream(f) /\ CooperativeStep
    \/ \E k \in DOMAIN ttl : ExpireKey(k) /\ CooperativeStep

SpecCooperative == Init /\ [][NextCooperative]_vars

\* The same system with concurrent finalize requests.
InitConcurrent ==
    /\ InitStore
    /\ start = [n \in 1..MaxStart |-> IdleStart]
    /\ chunk = [t \in 1..PairChunkTasks |-> IdleChunk]
    /\ fin = [f \in 1..PairFinalize |-> IdleFin]
    /\ max_wait_time = MaxWaitScaled * PollInterval
    /\ health = ServingHealth

SpecConcurrent == InitConcurrent /\ [][Next]_vars

\* The same system with two sessions.
InitSessions ==
    /\ InitStore
    /\ start = [n \in 1..PairStart |-> IdleStart]
    /\ chunk = [t \in 1..SessionsChunkTasks |-> IdleChunk]
    /\ fin = [f \in 1..SessionsFinalize |-> IdleFin]
    /\ max_wait_time = MaxWaitScaled * PollInterval
    /\ health = ServingHealth

SpecSessions == InitSessions /\ [][Next]_vars

\* Requests on two sessions that start_session has set up.
InitIsolation ==
    /\ redis = Put(Put(Put(Put([k \in {} |-> None],
                    KeySession("s1"), {Uuid4Message("s1")}),
                    KeyCurrentMessage("s1"), Uuid4Message("s1")),
                    KeySession("s2"), {Uuid4Message("s2")}),
                    KeyCurrentMessage("s2"), Uuid4Message("s2"))
    /\ ttl = [k \in DOMAIN redis |-> SessionTimeout]
    /\ expired = {}
    /\ start = [n \in 1..PairStart |-> [pc |-> "done", session_id |-> Uuid4Session(n)]]
    /\ chunk = [t \in 1..MaxChunkTasks |-> IdleChunk]
    /\ fin = [f \in 1..MaxFinalize |-> IdleFin]
    /\ max_wait_time = MaxWaitScaled * PollInterval
    /\ health = ServingHealth

NextRequests ==
    \/ \E t \in ChunkTasks : ProcessChunkGet(t)
    \/ \E t \in ChunkTasks : ProcessChunkSaddProcess(t)
    \/ \E t \in ChunkTasks : ProcessChunkSaddChunk(t)
    \/ \E t \in ChunkTasks : ProcessChunkTranscribe(t)
    \/ \E t \in ChunkTasks : ProcessChunkSetText(t)
    \/ \E t \in ChunkTasks : ProcessChunkExpireText(t)
    \/ \E t \in ChunkTasks : ProcessChunkSrem(t)
    \/ \E t \in ChunkTasks : ProcessChunkCleanup(t)
    \/ \E f \in FinTasks : FetchGet(f)
    \/ \E f \in FinTasks : FetchPoll(f)
    \/ \E f \in FinTasks : FetchSMembers(f)
    \/ \E f \in FinTasks : FetchGetText(f)
    \/ \E f \in FinTasks : UnderstandGenerate(f)
    \/ \E f \in FinTasks : UnderstandSetResponse(f)
    \/ \E f \in FinTasks : UnderstandExpireResponse(f)
    \/ \E f \in FinTasks : UnderstandSpeech(f)
    \/ \E f \in FinTasks : UnderstandStream(f)

SpecIsolation == InitIsolation /\ [][NextRequests]_vars

(***************************************************************************)
(* fetch_answer alone over a store left by earlier requests: session "s1"  *)
(* is started; each number of FetchNumbers is unseen (-1), seen without a  *)
(* transcript (0) or seen with the transcript FetchTexts[i] (i); at most   *)
(* one seen number without a transcript is in flight for ever, its         *)
(* process_chunk having stopped between the transcription and the SET.     *)
(* The wait ceiling is the program's.                                      *)
(***************************************************************************)
FetchNumbers == {0, 1, 2, 10}
FetchTexts == <<(<<"Halo">>), (<<"Selamat", " ", "pagi,">>), (<<" ", "ya", " ">>)>>
StuckText == <<"macet">>

RECURSIVE StoreWithChunks(_, _, _)
StoreWithChunks(r, S, st) ==
    IF S = {} THEN r
    ELSE LET c == CHOOSE x \in S : TRUE
             k == KeyChunk("s1", "m1")
             seen == Put(r, k, (IF k \in DOMAIN r THEN r[k] ELSE {}) \cup {Str(c)})
             next == IF st[c] < 0 THEN r
                     ELSE IF st[c] = 0 THEN seen
                     ELSE Put(seen, KeyText("s1", "m1", c), FetchTexts[st[c]])
         IN  StoreWithChunks(next, S \ {c}, st)

InitFetch ==
    \E st \in [FetchNumbers -> -1..Len(FetchTexts)] :
    \E stuck \in {-1} \cup {c \in FetchNumbers : st[c] = 0} :
        LET sessionKeys == Put(Put([k \in {} |-> None], KeySession("s1"), {"m1"}),
                               KeyCurrentMessage("s1"), "m1")
            chunks == StoreWithChunks(sessionKeys, FetchNumbers, st)
        IN  /\ redis = IF stuck < 0 THEN chunks
                       ELSE Put(chunks, KeyProcess("s1", "m1"), {Str(stuck)})
            /\ ttl = [k \in DOMAIN chunks \ {KeyChunk("s1", "m1")} |->
                         IF Len(k) <= 3 THEN SessionTimeout ELSE TranscriptTTL]
            /\ expired = {}
            /\ start = <<[pc |-> "done", session_id |-> "s1"]>>
            /\ chunk = IF stuck < 0 THEN <<>>
                       ELSE <<[IdleChunk EXCEPT !.pc = "set_text",
                                  !.session_id = "s1", !.message_id = "m1",
                                  !.chunk_number = stuck,
                                  !.audio_data = "dGVzdA==",
                                  !.stream_type = "chunk",
                                  !.text = StuckText]>>
            /\ fin = <<IdleFin>>
            /\ max_wait_time = MaxWaitTime
            /\ health = ServingHealth

NextFetch ==
    \/ \E f \in FinTasks : FetchGet(f)
    \/ \E f \in FinTasks : FetchPoll(f)
    \/ \E f \in FinTasks : FetchSMembers(f)
    \/ \E f \in FinTasks : FetchGetText(f)

\* The event loop resumes fetch_answer after every sleep and store reply.
SpecFetch == InitFetch /\ [][NextFetch]_vars /\ WF_vars(NextFetch)

(***************************************************************************)
(* Concurrent fetch_answer calls over a fixed store: session "s1" with the *)
(* numbers of FetchNumbers unseen, seen without a transcript or seen with  *)
(* a transcript, nothing in flight, and PairFinalize finalize requests.    *)
(***************************************************************************)
InitReassemble ==
    \E st \in [FetchNumbers -> -1..Len(FetchTexts)] :
        LET sessionKeys == Put(Put([k \in {} |-> None], KeySession("s1"), {"m1"}),
                               KeyCurrentMessage("s1"), "m1")
            chunks == StoreWithChunks(sessionKeys, FetchNumbers, st)
        IN  /\ redis = chunks
            /\ ttl = [k \in DOMAIN chunks \ {KeyChunk("s1", "m1")} |->
                         IF Len(k) <= 3 THEN SessionTimeout ELSE TranscriptTTL]
            /\ expired = {}
            /\ start = <<[pc |-> "done", session_id |-> "s1"]>>
            /\ chunk = <<>>
            /\ fin = [f \in 1..PairFinalize |-> IdleFin]
            /\ max_wait_time = MaxWaitTime
            /\ health = ServingHealth

SpecReassemble == InitReassemble /\ [][NextFetch]_vars

(***************************************************************************)
(* GET /health.  The process was started with a store client, or without   *)
(* one when create_clients raised; each request pings the store when there *)
(* is a client.  The requests are served one after another and touch no    *)
(* key of the store.                                                       *)
(***************************************************************************)
RedisClients == {"Redis", None}
PingOutcomes == {"PONG", "ConnectionError", "TimeoutError"}
PingRaises(outcome) == outcome # "PONG"

\* Mutant: the status is derived from the ping alone.
RedisStatusUnguarded(redis_client, ping) ==
    IF ping = "PONG" THEN "connected" ELSE "disconnected"

\* redis_status; ping is None when the client is not called.
RedisStatus(redis_client, ping) ==
    IF redis_client # None
    THEN IF PingRaises(ping) THEN "disconnected" ELSE "connected"
    ELSE "unavailable"

\* except Exception (line 201): every exception the ping raises is one.
PingCaught(outcome) == outcome \in {"ConnectionError", "TimeoutError"}

\* The response, or the 503 of the outer handler for an exception that
\* leaves the inner try.
HealthResponse(redis_client, ping) ==
    IF redis_client # None /\ PingRaises(ping) /\ ~PingCaught(ping)
    THEN [code |-> 503, status |-> "Service unavailable", redis |-> None,
          ping |-> ping]
    ELSE [code |-> 200, status |-> "healthy",
          redis |-> RedisStatus(redis_client, ping), ping |-> ping]

HealthCheck ==
    /\ Len(health.responses) < MaxHealthChecks
    /\ \E ping \in (IF health.redis_client # None THEN PingOutcomes ELSE {None}) :
          health' = [health EXCEPT !.responses =
                        Append(@, HealthResponse(health.redis_client, ping))]
    /\ UNCHANGED <<redis, ttl, expired, start, chunk, fin, max_wait_time>>

InitHealth ==
    /\ InitStore
    /\ start = [n \in 1..MaxStart |-> IdleStart]
    /\ chunk = [t \in 1..MaxChunkTasks |-> IdleChunk]
    /\ fin = [f \in 1..MaxFinalize |-> IdleFin]
    /\ max_wait_time = MaxWaitScaled * PollInterval
    /\ \E c \in RedisClients : health = [redis_client |-> c, responses |-> <<>>]

NextHealth == HealthCheck

SpecHealth == InitHealth /\ [][NextHealth]_vars

(***************************************************************************)
(* Vocabulary of the properties.                                           *)
(***************************************************************************)
InFlight(s, m) == SMembers(KeyProcess(s, m))
Seen(s, m) == SMembers(KeyChunk(s, m))
HasTranscript(s, m, c) == Exists(KeyText(s, m, c))

\* The request got past the session lookup.
ChunkLookedUp(t) == chunk[t].pc # "idle" /\ chunk[t].message_id # None
ChunkRunning(t) == chunk[t].pc \notin {"idle", "done"}
ChunkSucceeded(t) == chunk[t].pc = "done" /\ chunk[t].raised = None
SameChunk(t, u) ==
    /\ chunk[t].session_id = chunk[u].session_id
    /\ chunk[t].message_id = chunk[u].message_id
    /\ chunk[t].chunk_number = chunk[u].chunk_number

\* fetch_answer has returned or raised.
FinEnded(f) == fin[f].pc \notin {"idle", "scard", "smembers", "get_text"}
FetchRunning(f) == fin[f].pc \in {"scard", "smembers", "get_text"}

\* The texts of a set of numbers joined by one space, in ascending order.
RECURSIVE JoinAscending(_, _)
JoinAscending(S, textOf) ==
    IF S = {} THEN <<>>
    ELSE LET m == CHOOSE x \in S : \A y \in S : x <= y
             rest == JoinAscending(S \ {m}, textOf)
         IN  IF rest = <<>> THEN textOf[m] ELSE textOf[m] \o <<" ">> \o rest

\* A text without the whitespace at its two ends.
Trim(t) ==
    LET ink == {i \in 1..Len(t) : t[i] # " "}
    IN  IF ink = {} THEN <<>>
        ELSE SubSeq(t, CHOOSE i \in ink : \A j \in ink : i <= j,
                       CHOOSE i \in ink : \A j \in ink : i >= j)

\* The transcripts of the requests T, one per chunk number.
SubmittedText(T) ==
    [c \in {chunk[t].chunk_number : t \in T} |->
        chunk[CHOOSE t \in T : chunk[t].chunk_number = c].text]

(***************************************************************************)
(* C1.  When the process_chunk calls of distinct chunk numbers of one      *)
(* message have all succeeded, a fetch_answer that begins afterwards       *)
(* returns their transcripts in ascending chunk-number order, whatever the *)
(* order in which the calls ran and completed.                             *)
(***************************************************************************)
C1_Case(f) ==
    /\ fin[f].fetched
    /\ fin[f].began_quiet
    /\ fin[f].before # {}
    /\ fin[f].before = {t \in ChunkTasks : chunk[t].pc # "idle"}
    /\ \A t \in fin[f].before :
          /\ ChunkSucceeded(t)
          /\ chunk[t].session_id = fin[f].session_id
          /\ chunk[t].message_id = fin[f].message_id
          /\ \A u \in fin[f].before : u # t => ~SameChunk(t, u)

C1_CompletionOrderIrrelevant ==
    \A f \in FinTasks :
        C1_Case(f) =>
            fin[f].user_answer =
                Trim(JoinAscending({chunk[t].chunk_number : t \in fin[f].before},
                                   SubmittedText(fin[f].before)))

\* Chunk 10 was submitted before chunk 2, and the answer has 2 before 10.
C1_Witness ==
    \E f \in FinTasks :
        /\ C1_Case(f)
        /\ Cardinality(fin[f].before) = 2
        /\ chunk[1].chunk_number = 10
        /\ chunk[2].chunk_number = 2
        /\ chunk[1].text # chunk[2].text
        /\ fin[f].user_answer = chunk[2].text \o <<" ">> \o chunk[1].text

(***************************************************************************)
(* C2.  Whenever fetch_answer is about to read the seen set or a           *)
(* transcript of a message, that message's in-flight set is empty or the   *)
(* wait has timed out.                                                     *)
(***************************************************************************)
C2_ReadsOnlySettled ==
    \A f \in FinTasks :
        fin[f].pc \in {"smembers", "get_text"} =>
            \/ InFlight(fin[f].session_id, fin[f].message_id) = {}
            \/ fin[f].timed_out

(***************************************************************************)
(* C3.  Whenever a message's in-flight set is empty, every chunk number in *)
(* its seen set has a stored transcript.                                   *)
(***************************************************************************)
C3_EmptyInFlightAllTranscribed ==
    \A s \in SessionIds :
        LET m == Uuid4Message(s)
        IN  InFlight(s, m) = {} =>
                \A x \in Seen(s, m) : HasTranscript(s, m, IntOf(x))

\* A submission of chunk c of (s, m) failed in transcription and was cleaned up.
FailedGap(s, m, c) ==
    \E t \in ChunkTasks :
        /\ chunk[t].pc = "done"
        /\ chunk[t].raised = "Exception"
        /\ chunk[t].session_id = s
        /\ chunk[t].message_id = m
        /\ chunk[t].chunk_number = c

\* C3, amended: ... unless a submission of that number failed and was cleaned
\* up (a gap), or the transcript has expired.
C3_EmptyInFlightTranscribedOrGap ==
    \A s \in SessionIds :
        LET m == Uuid4Message(s)
        IN  InFlight(s, m) = {} =>
                \A x \in Seen(s, m) :
                    \/ HasTranscript(s, m, IntOf(x))
                    \/ FailedGap(s, m, IntOf(x))
                    \/ KeyText(s, m, IntOf(x)) \in expired

\* Two chunks seen and transcribed, nothing in flight, no gap.
C3_Witness ==
    \E s \in SessionIds :
        LET m == Uuid4Message(s)
        IN  /\ InFlight(s, m) = {}
            /\ Cardinality(Seen(s, m)) = 2
            /\ \A x \in Seen(s, m) : HasTranscript(s, m, IntOf(x))
            /\ \A t \in ChunkTasks : ChunkSucceeded(t)

C5_EndedMeansCleared ==
    \A t \in ChunkTasks :
        (/\ chunk[t].pc = "done"
         /\ ChunkLookedUp(t)
         /\ \A u \in ChunkTasks : (u # t /\ SameChunk(t, u)) => ~ChunkRunning(u))
        => Str(chunk[t].chunk_number)
               \notin InFlight(chunk[t].session_id, chunk[t].message_id)

(***************************************************************************)
(* C6.  At most one fetch_answer is executing for a (session, message) at  *)
(* any time.                                                               *)
(***************************************************************************)
C6_OneReassemblyAtATime ==
    \A f, g \in FinTasks :
        (f # g /\ FetchRunning(f) /\ FetchRunning(g)) =>
            \/ fin[f].session_id # fin[g].session_id
            \/ fin[f].message_id # fin[g].message_id

(***************************************************************************)
(* C8.  A finalize whose fetch_answer finds no seen chunk, or no           *)
(* transcript for any seen chunk, completes with the empty answer and      *)
(* without an exception.                                                   *)
(***************************************************************************)
C8_EmptyAnswerNoException ==
    \A f \in FinTasks :
        (FinEnded(f) /\ fin[f].fetched /\ fin[f].found = 0) =>
            fin[f].user_answer = <<>> /\ fin[f].raised = None

\* C8, amended: fetch_answer returns the empty answer without raising (it
\* raises only when the session is not found); generate then raises
\* ValueError("No user answer found for session"), which differs from the
\* session-not-found ValueError by its message alone.
C8_EmptyAnswerThenValueError ==
    \A f \in FinTasks :
        /\ (FinEnded(f) /\ fin[f].fetched /\ fin[f].found = 0) =>
               /\ fin[f].user_answer = <<>>
               /\ fin[f].pc = "done"
               /\ fin[f].raised = "ValueError"
               /\ fin[f].detail = "no user answer"
        /\ (FinEnded(f) /\ fin[f].detail = "session not found") =>
               ~fin[f].fetched /\ fin[f].raised = "ValueError"

\* A finalize over seen chunks that all lack a transcript has ended.
C8_Witness ==
    \E f \in FinTasks :
        /\ FinEnded(f)
        /\ fin[f].fetched
        /\ fin[f].found = 0
        /\ fin[f].sorted_chunks # <<>>

(***************************************************************************)
(* C10.  When the transcription raises or returns an empty text,           *)
(* process_chunk removes the chunk number from the in-flight set, writes   *)
(* no transcript, leaves the number in the seen set and reports a failure  *)
(* to its caller.                                                          *)
(***************************************************************************)
C10_FailureClearsMarker ==
    \A t \in ChunkTasks :
        (chunk[t].pc = "done" /\ chunk[t].detail = "transcription failed") =>
            /\ (\A u \in ChunkTasks : (u # t /\ SameChunk(t, u)) => ~ChunkRunning(u))
                   => Str(chunk[t].chunk_number)
                          \notin InFlight(chunk[t].session_id, chunk[t].message_id)
            /\ chunk[t].text = <<>>
            /\ Str(chunk[t].chunk_number)
                   \in Seen(chunk[t].session_id, chunk[t].message_id)
            /\ StreamChunkResponse(t) # "chunk_processed"

StoredText(s, m) ==
    [c \in {n \in {IntOf(x) : x \in Seen(s, m)} : HasTranscript(s, m, n)} |->
        redis[KeyText(s, m, c)]]

C9_AscendingJoinTrimmed ==
    \A f \in FinTasks :
        (fin[f].fetched /\ InFlight(fin[f].session_id, fin[f].message_id) = {}) =>
            LET textOf == StoredText(fin[f].session_id, fin[f].message_id)
            IN  fin[f].user_answer = Trim(JoinAscending(DOMAIN textOf, textOf))

\* Chunk 1 = "Halo", chunk 0 = "Selamat pagi,": the answer is "Selamat pagi, Halo".
C9_Witness ==
    \E f \in FinTasks :
        /\ fin[f].fetched
        /\ Seen(fin[f].session_id, fin[f].message_id) = {Str(0), Str(1)}
        /\ InFlight(fin[f].session_id, fin[f].message_id) = {}
        /\ HasTranscript(fin[f].session_id, fin[f].message_id, 0)
        /\ HasTranscript(fin[f].session_id, fin[f].message_id, 1)
        /\ redis[KeyText(fin[f].session_id, fin[f].message_id, 1)] = <<"Halo">>
        /\ redis[KeyText(fin[f].session_id, fin[f].message_id, 0)]
               = <<"Selamat", " ", "pagi,">>
        /\ fin[f].user_answer = <<"Selamat", " ", "pagi,", " ", "Halo">>

(***************************************************************************)
(* C11.  A process_chunk or fetch_answer call whose session has no         *)
(* current-message pointer in the store (never set, or expired) ends at    *)
(* its lookup with the session-not-found ValueError, and that step writes  *)
(* nothing: store and time-to-lives are as before, and the call is over.   *)
(***************************************************************************)
C11_AbsentPointerFailsWithoutWrite ==
    [][/\ \A t \in ChunkTasks :
            (/\ chunk[t].pc = "idle"
             /\ chunk'[t].pc # "idle"
             /\ ~Exists(KeyCurrentMessage(chunk'[t].session_id))) =>
                /\ chunk'[t].pc = "done"
                /\ chunk'[t].raised = "ValueError"
                /\ chunk'[t].detail = "session not found"
                /\ redis' = redis /\ ttl' = ttl
       /\ \A f \in FinTasks :
            (/\ fin[f].pc = "idle"
             /\ fin'[f].pc # "idle"
             /\ ~Exists(KeyCurrentMessage(fin'[f].session_id))) =>
                /\ fin'[f].pc = "done"
                /\ fin'[f].raised = "ValueError"
                /\ fin'[f].detail = "session not found"
                /\ ~fin'[f].fetched
                /\ redis' = redis /\ ttl' = ttl]_vars

\* Both calls have failed on a session whose pointer had expired.
C11_Witness ==
    \E t \in ChunkTasks, f \in FinTasks :
        /\ chunk[t].pc = "done" /\ chunk[t].detail = "session not found"
        /\ fin[f].pc = "done" /\ fin[f].detail = "session not found"
        /\ KeyCurrentMessage(chunk[t].session_id) \in expired
        /\ KeyCurrentMessage(fin[f].session_id) \in expired

(***************************************************************************)
(* C12.  Once an assistant response is stored for a (session, message),    *)
(* no later step stores a different value under that key: as long as the   *)
(* key exists its value stays the same.                                    *)
(***************************************************************************)
C12_ResponseWrittenOnce ==
    [][\A k \in DOMAIN redis :
          (k[Len(k)] = "assistant_response" /\ k \in DOMAIN redis') =>
              redis'[k] = redis[k]]_vars

(***************************************************************************)
(* C13.  When the generation service or the speech service has failed in   *)
(* a run of understand_gemini_speech_elevenlabs (before the first audio    *)
(* event or in the middle of the stream), the run is over without an       *)
(* exception and its events hold exactly one error event, the last one.    *)
(***************************************************************************)
C13_FailureEndsWithOneError ==
    \A f \in FinTasks :
        fin[f].failed =>
            /\ fin[f].pc = "done"
            /\ fin[f].raised = None
            /\ fin[f].events # <<>>
            /\ fin[f].events[Len(fin[f].events)] = "error"
            /\ \A i \in 1..(Len(fin[f].events) - 1) : fin[f].events[i] # "error"

\* The speech stream raised after its first frame.
C13_Witness ==
    \E f \in FinTasks :
        /\ fin[f].failed
        /\ fin[f].stored
        /\ fin[f].events = <<"audio", "error">>

(***************************************************************************)
(* C14.  In a run of the response pipeline the response text is stored     *)
(* under the (session, message) key when the speech service is called and  *)
(* whenever an audio event has been emitted; when the generation service   *)
(* failed or returned an empty text, the run has stored no response and    *)
(* emitted no audio event, and no response is in the store.                *)
(***************************************************************************)
ResponseStored(f) ==
    /\ fin[f].stored
    /\ Exists(KeyResponse(fin[f].session_id, fin[f].message_id))
    /\ redis[KeyResponse(fin[f].session_id, fin[f].message_id)] = fin[f].response_text

C14_StoredBeforeSpeechAndAudio ==
    /\ [][\A f \in FinTasks :
            (fin[f].pc = "tts_call" /\ fin'[f].pc # "tts_call") => ResponseStored(f)]_vars
    /\ [](\A f \in FinTasks :
            /\ fin[f].pc = "stream" => ResponseStored(f)
            /\ (\E i \in 1..Len(fin[f].events) : fin[f].events[i] = "audio")
                   => fin[f].stored /\ fin[f].response_text # <<>>
            /\ (fin[f].failed /\ fin[f].response_text = <<>>) =>
                   /\ ~fin[f].stored
                   /\ fin[f].events = <<"error">>
                   /\ ~Exists(KeyResponse(fin[f].session_id, fin[f].message_id)))

\* A run that stored its response and then emitted two audio events.
C14_Witness ==
    \E f \in FinTasks :
        /\ fin[f].pc = "done"
        /\ ~fin[f].failed
        /\ fin[f].events = <<"audio", "audio">>
        /\ ResponseStored(f)

(***************************************************************************)
(* C15.  Over one store state, any two fetch_answer calls for the same     *)
(* message, run one after the other or interleaved, return the same answer *)
(* text, and it is the ascending-order concatenation of the stored         *)
(* transcripts: no two concatenation orders come out of one store state.   *)
(***************************************************************************)
C15_SameStoreSameAnswer ==
    \A f, g \in FinTasks :
        (/\ fin[f].fetched /\ fin[g].fetched
         /\ fin[f].session_id = fin[g].session_id
         /\ fin[f].message_id = fin[g].message_id) =>
            LET textOf == StoredText(fin[f].session_id, fin[f].message_id)
            IN  /\ fin[f].user_answer = fin[g].user_answer
                /\ fin[f].user_answer = Trim(JoinAscending(DOMAIN textOf, textOf))

\* Two calls have returned "Halo Selamat pagi," for chunks 2 and 10.
C15_Witness ==
    /\ Cardinality(FinTasks) >= 2
    /\ \A f \in FinTasks :
          /\ fin[f].fetched
          /\ fin[f].sorted_chunks = <<2, 10>>
          /\ fin[f].user_answer = <<"Halo", " ", "Selamat", " ", "pagi,">>

(***************************************************************************)
(* C16.  A SADD of process_chunk's begin step whose chunk number is        *)
(* already a member leaves the in-flight set and the seen set of the       *)
(* message as they were (same members, same cardinality).                  *)
(***************************************************************************)
MembersIn(r, k) == IF k \in DOMAIN r THEN r[k] ELSE {}

C16_BeginIdempotent ==
    [][\A t \in ChunkTasks :
          LET process == KeyProcess(chunk[t].session_id, chunk[t].message_id)
              seen == KeyChunk(chunk[t].session_id, chunk[t].message_id)
              number == Str(chunk[t].chunk_number)
              same == /\ MembersIn(redis', process) = MembersIn(redis, process)
                      /\ MembersIn(redis', seen) = MembersIn(redis, seen)
                      /\ Cardinality(MembersIn(redis', process))
                             = Cardinality(MembersIn(redis, process))
                      /\ Cardinality(MembersIn(redis', seen))
                             = Cardinality(MembersIn(redis, seen))
          IN  /\ (/\ chunk[t].pc = "sadd_process" /\ chunk'[t].pc # "sadd_process"
                  /\ number \in MembersIn(redis, process)) => same
              /\ (/\ chunk[t].pc = "sadd_chunk" /\ chunk'[t].pc # "sadd_chunk"
                  /\ number \in MembersIn(redis, seen)) => same]_vars

\* Two submissions of one chunk number have both run their begin step while
\* the first was still in flight: each set holds the number once.
C16_Witness ==
    \E t, u \in ChunkTasks :
        /\ t # u /\ SameChunk(t, u)
        /\ chunk[t].overlapped /\ chunk[u].overlapped
        /\ chunk[t].pc = "transcribe" /\ chunk[u].pc = "transcribe"
        /\ InFlight(chunk[t].session_id, chunk[t].message_id)
               = {Str(chunk[t].chunk_number)}
        /\ Seen(chunk[t].session_id, chunk[t].message_id)
               = {Str(chunk[t].chunk_number)}

(***************************************************************************)
(* C17.  When several submissions of one chunk number to one message have  *)
(* succeeded, the stored transcript of the number (while it exists) is the *)
(* text written by the last SET, the seen set holds the number once, and a *)
(* fetch_answer begun after the submissions returns, for each number, the  *)
(* last-written text once, in ascending order.                             *)
(***************************************************************************)
LatestText(T) ==
    [c \in {chunk[t].chunk_number : t \in T} |->
        chunk[CHOOSE t \in T : chunk[t].chunk_number = c /\ chunk[t].latest].text]

C17_Case(f) ==
    /\ fin[f].fetched
    /\ fin[f].began_quiet
    /\ fin[f].before = {t \in ChunkTasks : chunk[t].pc # "idle"}
    /\ \A t \in fin[f].before :
          /\ ChunkSucceeded(t)
          /\ chunk[t].session_id = fin[f].session_id
          /\ chunk[t].message_id = fin[f].message_id
    /\ \E t, u \in fin[f].before : t # u /\ SameChunk(t, u)

C17_LastWriteWins ==
    /\ \A t, u \in ChunkTasks :
          (t # u /\ SameChunk(t, u) /\ ChunkSucceeded(t) /\ ChunkSucceeded(u)) =>
              LET s == chunk[t].session_id
                  m == chunk[t].message_id
                  c == chunk[t].chunk_number
                  same == {w \in ChunkTasks : SameChunk(t, w) /\ ChunkSucceeded(w)}
              IN  /\ Cardinality({w \in same : chunk[w].latest}) = 1
                  /\ HasTranscript(s, m, c) =>
                         \E w \in same :
                            chunk[w].latest /\ redis[KeyText(s, m, c)] = chunk[w].text
                  /\ Cardinality({x \in Seen(s, m) : IntOf(x) = c}) = 1
    /\ \A f \in FinTasks :
          C17_Case(f) =>
              fin[f].user_answer =
                  Trim(JoinAscending({chunk[t].chunk_number : t \in fin[f].before},
                                     LatestText(fin[f].before)))

\* Chunk 2 was submitted twice with different texts; the first submission
\* wrote last, and the answer is its text.
C17_Witness ==
    \E f \in FinTasks :
        /\ C17_Case(f)
        /\ chunk[1].text # chunk[2].text
        /\ chunk[1].latest
        /\ fin[f].user_answer = chunk[1].text
        /\ Seen(fin[f].session_id, fin[f].message_id) = {Str(2)}

(***************************************************************************)
(* C18.  A step of process_chunk, fetch_answer or the response pipeline    *)
(* run for session A changes only keys (values and time-to-lives) that     *)
(* carry A's session id and A's current message id, so every key of        *)
(* another session stays as it was; and the answer reassembled for A holds *)
(* only words of transcripts submitted under A.                            *)
(***************************************************************************)
KeyChanged(k) ==
    \/ (k \in DOMAIN redis) # (k \in DOMAIN redis')
    \/ (k \in DOMAIN redis /\ k \in DOMAIN redis' /\ redis'[k] # redis[k])
    \/ (k \in DOMAIN ttl) # (k \in DOMAIN ttl')
    \/ (k \in DOMAIN ttl /\ k \in DOMAIN ttl' /\ ttl'[k] # ttl[k])

KeyOf(k, s) ==
    /\ Len(k) >= 5
    /\ k[1] = "transcription" /\ k[2] = s
    /\ k[3] = "message" /\ k[4] = Get(KeyCurrentMessage(s))

C18_SessionIsolation ==
    /\ [][\A k \in DOMAIN redis \cup DOMAIN redis' \cup DOMAIN ttl \cup DOMAIN ttl' :
            KeyChanged(k) =>
                \/ \E t \in ChunkTasks :
                      chunk'[t] # chunk[t] /\ KeyOf(k, chunk'[t].session_id)
                \/ \E f \in FinTasks :
                      fin'[f] # fin[f] /\ KeyOf(k, fin'[f].session_id)]_vars
    /\ [](\A f \in FinTasks :
            fin[f].fetched =>
                \A i \in 1..Len(fin[f].user_answer) :
                    \/ fin[f].user_answer[i] = " "
                    \/ \E t \in ChunkTasks :
                          /\ chunk[t].session_id = fin[f].session_id
                          /\ \E j \in 1..Len(chunk[t].text) :
                                chunk[t].text[j] = fin[f].user_answer[i])

\* Chunk 2 of session s2 is "Halo", chunk 2 of session s1 is "Selamat pagi,":
\* the answer for s1 is "Selamat pagi," and s2's transcript is in place.
C18_Witness ==
    \E f \in FinTasks, t, u \in ChunkTasks :
        /\ fin[f].fetched /\ fin[f].session_id = "s1"
        /\ ChunkSucceeded(t) /\ chunk[t].session_id = "s1"
        /\ ChunkSucceeded(u) /\ chunk[u].session_id = "s2"
        /\ chunk[t].chunk_number = 2 /\ chunk[u].chunk_number = 2
        /\ chunk[t].text = <<"Selamat", " ", "pagi,">>
        /\ chunk[u].text = <<"Halo">>
        /\ fin[f].user_answer = <<"Selamat", " ", "pagi,">>
        /\ HasTranscript("s2", "m2", 2)
        /\ redis[KeyText("s2", "m2", 2)] = <<"Halo">>
        /\ fin[f].stored

(***************************************************************************)
(* C19.  In every reachable state, also after keys of the session have     *)
(* expired, a current-message pointer that is present holds a member of    *)
(* its session's message set.                                              *)
(***************************************************************************)
C19_PointerResolves ==
    \A s \in SessionIds :
        Exists(KeyCurrentMessage(s)) =>
            redis[KeyCurrentMessage(s)] \in SMembers(KeySession(s))

(***************************************************************************)
(* C20.  At the step on which start_session returns, the session's message *)
(* set holds exactly the message id the request generated, the             *)
(* current-message pointer equals it, and both keys carry the configured   *)
(* session time-to-live; and two requests that have returned have returned *)
(* different session ids.                                                  *)
(***************************************************************************)
C20_StartSessionPostcondition ==
    /\ [][\A n \in StartTasks :
            (start[n].pc # "done" /\ start'[n].pc = "done") =>
                LET session_id == start'[n].session_id
                    message_id == Uuid4Message(session_id)
                IN  /\ KeySession(session_id) \in DOMAIN redis'
                    /\ redis'[KeySession(session_id)] = {message_id}
                    /\ KeyCurrentMessage(session_id) \in DOMAIN redis'
                    /\ redis'[KeyCurrentMessage(session_id)] = message_id
                    /\ KeySession(session_id) \in DOMAIN ttl'
                    /\ ttl'[KeySession(session_id)] = SessionTimeout
                    /\ KeyCurrentMessage(session_id) \in DOMAIN ttl'
                    /\ ttl'[KeyCurrentMessage(session_id)] = SessionTimeout]_vars
    /\ [](\A n, k \in StartTasks :
            (n # k /\ start[n].pc = "done" /\ start[k].pc = "done") =>
                start[n].session_id # start[k].session_id)

\* Two start_session requests have returned; the second session's keys are
\* in place while the first session's are too.
C20_Witness ==
    /\ Cardinality(StartTasks) >= 2
    /\ \A n \in StartTasks : start[n].pc = "done"
    /\ start[1].session_id # start[2].session_id
    /\ \A n \in {1, 2} :
          /\ Get(KeyCurrentMessage(start[n].session_id))
                 = Uuid4Message(start[n].session_id)
          /\ SMembers(KeySession(start[n].session_id))
                 = {Uuid4Message(start[n].session_id)}
          /\ KeySession(start[n].session_id) \in DOMAIN ttl
          /\ ttl[KeyCurrentMessage(start[n].session_id)] = SessionTimeout

(***************************************************************************)
(* C21.  A /stream request of stream_type "chunk" runs process_chunk and   *)
(* no reassembly, and when it succeeds its answer is "chunk_processed"     *)
(* with the chunk number it registered; a request of any other             *)
(* stream_type runs the reassembly and the response pipeline, never        *)
(* process_chunk, and none of its steps changes an in-flight or seen set.  *)
(***************************************************************************)
TrackingKey(k) == Len(k) = 5 /\ k[5] \in {"process", "chunk"}

C21_StreamTypeRoutes ==
    /\ [](\A t \in ChunkTasks :
            /\ chunk[t].pc # "idle" => chunk[t].stream_type = "chunk"
            /\ ChunkSucceeded(t) =>
                  /\ StreamChunkResponse(t) = "chunk_processed"
                  /\ Str(StreamChunkNumber(t))
                         \in Seen(chunk[t].session_id, chunk[t].message_id)
                  /\ StreamChunkNumber(t) \in ChunkNumbers)
    /\ [](\A f \in FinTasks : fin[f].pc # "idle" => fin[f].stream_type # "chunk")
    /\ [][(fin' # fin) =>
            \A k \in DOMAIN redis \cup DOMAIN redis' :
                TrackingKey(k) =>
                    /\ k \in DOMAIN redis /\ k \in DOMAIN redis'
                    /\ redis'[k] = redis[k]]_vars

\* A "chunk" request has answered chunk_processed for chunk 10 and a "final"
\* request has run its pipeline to the end over that chunk.
C21_Witness ==
    \E t \in ChunkTasks, f \in FinTasks :
        /\ ChunkSucceeded(t) /\ chunk[t].stream_type = "chunk"
        /\ StreamChunkNumber(t) = 10
        /\ fin[f].stream_type = "final" /\ fin[f].pc = "done"
        /\ fin[f].events = <<"audio", "audio">>
        /\ Seen(fin[f].session_id, fin[f].message_id) = {Str(10)}

(***************************************************************************)
(* C22.  On one event loop, a finalize request between two reads of the    *)
(* in-flight cardinality is suspended: a process_chunk request can begin   *)
(* then, and a process_chunk that is running can take its next step, so a  *)
(* chunk can run to completion while the finalize request waits.           *)
(***************************************************************************)
ChunkStep(t) ==
    \/ ProcessChunkSaddProcess(t)
    \/ ProcessChunkSaddChunk(t)
    \/ ProcessChunkTranscribe(t)
    \/ ProcessChunkSetText(t)
    \/ ProcessChunkExpireText(t)
    \/ ProcessChunkSrem(t)
    \/ ProcessChunkCleanup(t)

NobodyElseRuns(f) ==
    /\ \A n \in StartTasks : StartSuspended(start[n])
    /\ \A t \in ChunkTasks : ChunkSuspended(chunk[t])
    /\ \A g \in FinTasks \ {f} : FinSuspended(fin[g])

C22_WaitLoopYields ==
    \A f \in FinTasks :
        (fin[f].pc = "scard" /\ fin[f].wait_time > 0) =>
            /\ \A t \in ChunkTasks :
                  (ChunkMayBegin(t) /\ NobodyElseRuns(f)) =>
                      ENABLED (ProcessChunkGet(t) /\ CooperativeStep)
            /\ \A t \in ChunkTasks :
                  ChunkRunning(t) => ENABLED (ChunkStep(t) /\ CooperativeStep)

\* A chunk that was submitted after the finalize request began has run to
\* completion during the wait, and the wait then ended before its ceiling.
C22_Witness ==
    \E f \in FinTasks, t \in ChunkTasks :
        /\ fin[f].fetched /\ ~fin[f].timed_out
        /\ fin[f].wait_time > 0
        /\ t \notin fin[f].before
        /\ ChunkSucceeded(t)
        /\ chunk[t].message_id = fin[f].message_id
        /\ fin[f].user_answer = chunk[t].text

(***************************************************************************)
(* C23.  Every health check answers normally with status "healthy"; its    *)
(* redis field is "connected" exactly when there is a store client and the *)
(* ping succeeded, "disconnected" when there is a client and the ping      *)
(* raised, "unavailable" when there is no client.                          *)
(***************************************************************************)
C23_HealthAlwaysHealthy ==
    \A i \in 1..Len(health.responses) :
        LET r == health.responses[i]
            client == health.redis_client # None
        IN  /\ r.code = 200 /\ r.status = "healthy"
            /\ r.redis = "connected" <=> (client /\ r.ping = "PONG")
            /\ (client /\ r.ping \in {"ConnectionError", "TimeoutError"})
                  => r.redis = "disconnected"
            /\ ~client => r.redis = "unavailable"

\* One process with a client has answered a check whose ping succeeded and
\* one whose ping timed out.
C23_Witness ==
    /\ health.redis_client # None
    /\ \E i, j \in 1..Len(health.responses) :
          /\ health.responses[i].redis = "connected"
          /\ health.responses[j].redis = "disconnected"
          /\ health.responses[j].ping = "TimeoutError"

(***************************************************************************)
(* C24.  As long as a chunk's transcript key has not expired: a chunk      *)
(* number that is in the seen set of a message and has no stored           *)
(* transcript is in the in-flight set of the message, or a submission of   *)
(* that number to the message has failed.                                  *)
(***************************************************************************)
FailedSubmission(s, m, c) ==
    \E t \in ChunkTasks :
        /\ chunk[t].pc = "done" /\ chunk[t].raised # None
        /\ chunk[t].session_id = s /\ chunk[t].message_id = m
        /\ chunk[t].chunk_number = c

C24_SeenWithoutTextIsInFlightOrFailed ==
    \A s \in SessionIds :
        LET m == Uuid4Message(s)
        IN  \A c \in ChunkNumbers :
                (/\ Str(c) \in Seen(s, m)
                 /\ ~HasTranscript(s, m, c)
                 /\ KeyText(s, m, c) \notin expired) =>
                    \/ Str(c) \in InFlight(s, m)
                    \/ FailedSubmission(s, m, c)

\* One submission of a number is in flight, seen and not yet transcribed;
\* another number of the same message is seen without a transcript because
\* its submission failed and cleared its marker.
C24_Witness ==
    \E t, u \in ChunkTasks :
        /\ chunk[t].pc = "transcribe"
        /\ chunk[u].pc = "done" /\ chunk[u].raised = "Exception"
        /\ chunk[u].message_id = chunk[t].message_id
        /\ chunk[u].chunk_number # chunk[t].chunk_number
        /\ LET s == chunk[t].session_id
               m == chunk[t].message_id
           IN  /\ {Str(chunk[t].chunk_number), Str(chunk[u].chunk_number)} \subseteq Seen(s, m)
               /\ InFlight(s, m) = {Str(chunk[t].chunk_number)}
               /\ ~HasTranscript(s, m, chunk[t].chunk_number)
               /\ ~HasTranscript(s, m, chunk[u].chunk_number)

(***************************************************************************)
(* C25.  While a process_chunk request is between its in-flight            *)
(* registration and its completion or failure cleanup, the in-flight set   *)
(* of its message is not empty.                                            *)
(***************************************************************************)
Registered(t) ==
    chunk[t].pc \in {"sadd_chunk", "transcribe", "set_text", "expire_text",
                     "srem", "cleanup"}

C25_EmptyMeansNoneRegistered ==
    \A t \in ChunkTasks :
        Registered(t) => InFlight(chunk[t].session_id, chunk[t].message_id) # {}

(***************************************************************************)
(* C26.  When fetch_answer has returned: for every process_chunk request   *)
(* of the same message that had succeeded before the finalize request      *)
(* began and whose transcript key has not expired, the answer contains the *)
(* transcript stored for that chunk number (the request's own, or the one  *)
(* a later submission of the same number stored over it).                  *)
(***************************************************************************)
Occurs(sub, text) ==
    \E i \in 0..(Len(text) - Len(sub)) : SubSeq(text, i + 1, i + Len(sub)) = sub

C26_SucceededBeforeIsIncluded ==
    \A f \in FinTasks :
        fin[f].fetched =>
            \A t \in fin[f].before :
                (/\ ChunkSucceeded(t)
                 /\ chunk[t].session_id = fin[f].session_id
                 /\ chunk[t].message_id = fin[f].message_id
                 /\ KeyText(chunk[t].session_id, chunk[t].message_id,
                            chunk[t].chunk_number) \notin expired) =>
                    \E u \in ChunkTasks :
                        /\ SameChunk(t, u)
                        /\ chunk[u].text # <<>>
                        /\ u # t => ~chunk[t].latest
                        /\ Occurs(Trim(chunk[u].text), fin[f].user_answer)

\* One chunk had succeeded and another had failed leaving its marker when
\* the finalize request began; the wait timed out and the answer is the
\* transcript of the chunk that succeeded.
C26_Witness ==
    \E f \in FinTasks, t, u \in ChunkTasks :
        /\ fin[f].fetched /\ fin[f].timed_out
        /\ {t, u} \subseteq fin[f].before
        /\ ChunkSucceeded(t)
        /\ chunk[u].raised = "ValueError" /\ ~SameChunk(t, u)
        /\ chunk[u].message_id = chunk[t].message_id
        /\ fin[f].message_id = chunk[t].message_id
        /\ fin[f].user_answer = chunk[t].text

(***************************************************************************)
(* C27.  Only start_session writes a session's current-message pointer:    *)
(* the value of the pointer changes only in a step of start_session or     *)
(* when the key expires, and while it exists it is the message id that     *)
(* start_session chose.  Every chunk request and every finalize request of *)
(* the session is attributed to that message; a finalize request that      *)
(* begins after another one has ended returns the chunks of the earlier    *)
(* turn again.                                                             *)
(***************************************************************************)
PointerIn(r, s) ==
    IF KeyCurrentMessage(s) \in DOMAIN r THEN r[KeyCurrentMessage(s)] ELSE None

C27_PointerWrittenOnlyByStart ==
    /\ [][\A s \in SessionIds :
            PointerIn(redis', s) # PointerIn(redis, s) =>
                \/ \E n \in StartTasks :
                      /\ start[n].pc = "set" /\ start'[n].pc # "set"
                      /\ start[n].session_id = s
                      /\ PointerIn(redis', s) = Uuid4Message(s)
                \/ /\ KeyCurrentMessage(s) \in expired' \ expired
                   /\ PointerIn(redis', s) = None]_vars
    /\ [](\A s \in SessionIds :
             PointerIn(redis, s) \in {None, Uuid4Message(s)})
    /\ [](\A t \in ChunkTasks :
             ChunkLookedUp(t) => chunk[t].message_id = Uuid4Message(chunk[t].session_id))
    /\ [](\A f \in FinTasks :
             fin[f].message_id # None =>
                 fin[f].message_id = Uuid4Message(fin[f].session_id))
    /\ [](\A f, g \in FinTasks :
             (/\ f \in fin[g].after
              /\ fin[f].fetched /\ fin[g].fetched
              /\ fin[f].session_id = fin[g].session_id) =>
                 /\ fin[g].message_id = fin[f].message_id
                 /\ \A i \in 1..Len(fin[f].sorted_chunks) :
                       \E j \in 1..Len(fin[g].sorted_chunks) :
                           fin[g].sorted_chunks[j] = fin[f].sorted_chunks[i]
                 /\ \A t \in fin[f].before :
                       (/\ ChunkSucceeded(t)
                        /\ chunk[t].session_id = fin[f].session_id) =>
                           /\ Occurs(Trim(chunk[t].text), fin[f].user_answer)
                           /\ Occurs(Trim(chunk[t].text), fin[g].user_answer))

\* A chunk was submitted and a first finalize request ran to its end; the
\* second finalize request, begun afterwards, returned the same chunk.
C27_Witness ==
    \E f, g \in FinTasks, t \in ChunkTasks :
        /\ f \in fin[g].after
        /\ fin[f].fetched /\ fin[g].fetched
        /\ fin[f].events # <<>>
        /\ t \in fin[f].before /\ ChunkSucceeded(t)
        /\ fin[f].message_id = chunk[t].message_id
        /\ fin[g].message_id = chunk[t].message_id
        /\ fin[f].user_answer = chunk[t].text
        /\ fin[g].user_answer = chunk[t].text
        /\ PointerIn(redis, chunk[t].session_id) = chunk[t].message_id

(***************************************************************************)
(* C28.  fetch_answer writes nothing: every step of a finalize request     *)
(* from its session lookup to the return or raise of fetch_answer leaves   *)
(* every key of the store, its value and its time-to-live as they were,    *)
(* and expires nothing.                                                    *)
(***************************************************************************)
FetchStep(f) ==
    /\ fin[f].pc \in {"idle", "scard", "smembers", "get_text"}
    /\ fin'[f] # fin[f]

C28_FetchAnswerWritesNothing ==
    [][\A f \in FinTasks :
          FetchStep(f) => /\ redis' = redis
                          /\ ttl' = ttl
                          /\ expired' = expired]_vars

\* fetch_answer has returned after its wait timed out: the marker it waited
\* for, the seen set and the transcript it read are still in the store.
C28_Witness ==
    \E f \in FinTasks, t \in ChunkTasks :
        /\ fin[f].fetched /\ fin[f].timed_out /\ fin[f].pc = "understand"
        /\ ChunkSucceeded(t) /\ t \in fin[f].before
        /\ chunk[t].message_id = fin[f].message_id
        /\ InFlight(fin[f].session_id, fin[f].message_id) # {}
        /\ Str(chunk[t].chunk_number) \in Seen(fin[f].session_id, fin[f].message_id)
        /\ HasTranscript(fin[f].session_id, fin[f].message_id, chunk[t].chunk_number)
        /\ Exists(KeyCurrentMessage(fin[f].session_id))
        /\ ~Exists(KeyResponse(fin[f].session_id, fin[f].message_id))
====
